---- MODULE Spec2Model ----
(***************************************************************************)
(* Model of the OmnichannelTranscript service                              *)
(* (ee/apps/omnichannel-transcript/src/OmnichannelTranscript.ts).          *)
(*                                                                         *)
(* Every `await` of the service is a suspension point: an action of the    *)
(* model is the answer of a collaborator together with the code that runs  *)
(* from there to the next await that touches shared state.  The            *)
(* collaborators (document store, queue, upload, messaging, translation,   *)
(* settings, render engine) either answer or raise; which of the two       *)
(* happens is chosen nondeterministically at the step that resumes.        *)
(*                                                                         *)
(* A call or a job that is over keeps only how it ended: its locals are    *)
(* dropped, as the runtime drops them.                                     *)
(***************************************************************************)
EXTENDS Integers, Sequences, FiniteSets, TLC

\* ------------------------------------------------------------------ bounds
\* number of requestTranscript calls made in one behaviour
NumCalls == 2
\* number of workOnPdf invocations the queue makes in one behaviour
NumJobs == 2
\* largest value maxNumberOfConcurrentJobs is configured to
MaxLimit == 1
\* largest number of chunks a render stream emits before it ends
MaxChunks == 2

Calls == 1..NumCalls
Jobs == 1..NumJobs

Rooms == {"r1"}
Users == {"u1"}

\* `protected name = 'omnichannel-transcript'`
name == "omnichannel-transcript"

None == "none"

\* no file record, no conversation
NoFile == <<>>
NoDirect == <<>>

\* a room document that findOneById does not find
NoRoom == [exists |-> FALSE, open |-> FALSE, servedBy |-> FALSE, v |-> FALSE,
           pdfTranscriptRequested |-> FALSE, pdfTranscriptFileId |-> NoFile]

\* the room documents the store may hold before any transcript is requested
RoomDocs ==
  {NoRoom} \cup
  { [exists |-> TRUE, open |-> o, servedBy |-> s, v |-> vis,
     pdfTranscriptRequested |-> FALSE, pdfTranscriptFileId |-> NoFile] :
      o \in BOOLEAN, s \in BOOLEAN, vis \in BOOLEAN }

VARIABLES
  rooms,                      \* LivechatRooms collection: room id -> document
  users,                      \* Users collection: user id -> exists
  maxNumberOfConcurrentJobs,  \* this.maxNumberOfConcurrentJobs
  currentJobNumber,           \* this.currentJobNumber
  call,                       \* requestTranscript invocations
  queue,                      \* work items the queue holds, not yet delivered
  job,                        \* workOnPdf invocations
  gf                          \* one getFiles call: its messages and attachment tasks

vars == <<rooms, users, maxNumberOfConcurrentJobs, currentJobNumber, call, queue, job, gf>>

\* ------------------------------------------------------------ requestTranscript

IdleCall == [pc |-> "idle", rid |-> None, userId |-> None, result |-> None]

WorkItemWrongUser(details) ==
  [queue |-> "work",
   to |-> <<name, "workOnPdf">>,
   data |-> [template |-> "omnichannel-transcript",
             details |-> [userId |-> "rocket.cat", rid |-> details.rid, from |-> name]]]

\* the work item of lines 115-118
WorkItem(details) ==
  [queue |-> "work",
   to |-> <<name, "workOnPdf">>,
   data |-> [template |-> "omnichannel-transcript",
             details |-> [userId |-> details.userId, rid |-> details.rid, from |-> name]]]

ValidateRoomNoOpen(room) ==
  IF ~room.exists THEN "room-not-found"
  ELSE IF ~room.servedBy \/ ~room.v THEN "improper-room-state"
  ELSE IF room.pdfTranscriptRequested THEN "return"
  ELSE "proceed"

ValidateRoomNoPending(room) ==
  IF ~room.exists THEN "room-not-found"
  ELSE IF room.open THEN "room-still-open"
  ELSE IF ~room.servedBy \/ ~room.v THEN "improper-room-state"
  ELSE "proceed"

ValidateRoomStateFirst(room) ==
  IF ~room.exists THEN "room-not-found"
  ELSE IF ~room.servedBy \/ ~room.v THEN "improper-room-state"
  ELSE IF room.open THEN "room-still-open"
  ELSE IF room.pdfTranscriptRequested THEN "return"
  ELSE "proceed"

\* the checks of lines 91-108 on the document findOneById returned:
\* the error thrown, "return" for the silent no-op, "proceed" otherwise
ValidateRoom(room) ==
  IF ~room.exists THEN "room-not-found"
  ELSE IF room.open THEN "room-still-open"
  ELSE IF ~room.servedBy \/ ~room.v THEN "improper-room-state"
  ELSE IF room.pdfTranscriptRequested THEN "return"
  ELSE "proceed"

\* lines 88-110: the call is made and findOneById answers with the document as
\* it is when it is read; the checks run; past them the flag write is issued
\* and the call is suspended on it
RequestTranscript(c, rid, userId) ==
  /\ call[c].pc = "idle"
  /\ \A d \in Calls : d < c => call[d].pc # "idle"
  /\ \/ call' = [call EXCEPT ![c] = [pc |-> "done", rid |-> rid, userId |-> userId,
                                     result |-> "store-error"]]
     \/ LET v == ValidateRoom(rooms[rid])
        IN call' = [call EXCEPT ![c] =
                      [pc |-> IF v = "proceed" THEN "setRequested" ELSE "done",
                       rid |-> rid, userId |-> userId,
                       result |-> IF v = "proceed" THEN None
                                  ELSE IF v = "return" THEN "ok" ELSE v]]
  /\ UNCHANGED <<rooms, users, maxNumberOfConcurrentJobs, currentJobNumber, queue, job, gf>>

\* LivechatRooms.setTranscriptRequestedPdfById: an update of the stored document
SetTranscriptRequestedPdfById(rid) ==
  IF rooms[rid].exists
  THEN [rooms EXCEPT ![rid].pdfTranscriptRequested = TRUE]
  ELSE rooms

\* LivechatRooms.unsetTranscriptRequestedPdfById
UnsetTranscriptRequestedPdfById(rid) ==
  IF rooms[rid].exists
  THEN [rooms EXCEPT ![rid].pdfTranscriptRequested = FALSE]
  ELSE rooms

\* LivechatRooms.setPdfTranscriptFileIdById
SetPdfTranscriptFileIdById(rid, fileId) ==
  IF rooms[rid].exists
  THEN [rooms EXCEPT ![rid].pdfTranscriptFileId = fileId]
  ELSE rooms

\* lines 110-115: setTranscriptRequestedPdfById answers; queueWork is issued
ReqSetRequested(c) ==
  /\ call[c].pc = "setRequested"
  /\ \/ /\ call' = [call EXCEPT ![c] = [@ EXCEPT !.pc = "done", !.result = "store-error"]]
        /\ UNCHANGED rooms
     \/ /\ rooms' = SetTranscriptRequestedPdfById(call[c].rid)
        /\ call' = [call EXCEPT ![c].pc = "queueWork"]
  /\ UNCHANGED <<users, maxNumberOfConcurrentJobs, currentJobNumber, queue, job, gf>>

\* lines 115-119: queueWork answers (the item is queued) or raises; the call
\* is over
ReqQueueWork(c) ==
  /\ call[c].pc = "queueWork"
  /\ \/ /\ call' = [call EXCEPT ![c] = [@ EXCEPT !.pc = "done", !.result = "queue-error"]]
        /\ UNCHANGED queue
     \/ /\ queue' = Append(queue, WorkItem(call[c]))
        /\ call' = [call EXCEPT ![c] = [@ EXCEPT !.pc = "done", !.result = "ok"]]
  /\ UNCHANGED <<rooms, users, maxNumberOfConcurrentJobs, currentJobNumber, job, gf>>

\* ------------------------------------------------------------------ workOnPdf
\* A job is one invocation of workOnPdf.  It has two lines of control: "main"
\* is the async function itself, "stream" is what the render stream's 'end'
\* listener starts (lines 265-286), which nothing awaits.

NoDetails == [userId |-> None, rid |-> None, from |-> None]

\* a sendFileMessage call: not made, pending, fulfilled or rejected
NoDelivery == [state |-> "none", roomId |-> NoDirect, file |-> NoFile]

\* the argument of a sendMessage call not made
NoMessage == [fromId |-> None, rid |-> NoDirect, msg |-> <<>>]

IdleJob ==
  [template |-> None, details |-> NoDetails,
   main |-> [pc |-> "idle", e |-> None],
   stream |-> [pc |-> "none", e |-> None],
   buf |-> <<>>, upload |-> <<>>, file |-> NoFile, dm |-> NoDirect, msg |-> NoMessage,
   d1 |-> NoDelivery, d2 |-> NoDelivery]

Threads == {"main", "stream"}

\* the ways a line of control ends
MainOver == {"rejected", "returned", "raised"}
StreamOver == {"done", "unhandled"}

\* the direct conversation createDirectMessage({to, from}) answers with
DirectRoom(to, from) == <<"dm", from, to>>

\* the job record once line of control th has ended with `end`: the locals of
\* the functions that ran on it are gone; a sendFileMessage still pending
\* stays pending
Over(jr, th, end) ==
  IF th = "main"
  THEN [jr EXCEPT !.main = [pc |-> end, e |-> None], !.dm = NoDirect, !.msg = NoMessage]
  ELSE [jr EXCEPT !.stream = [pc |-> end, e |-> None],
                  !.buf = <<>>, !.upload = <<>>, !.file = NoFile,
                  !.dm = NoDirect, !.msg = NoMessage,
                  !.d1 = IF @.state = "pending" THEN @ ELSE NoDelivery,
                  !.d2 = IF @.state = "pending" THEN @ ELSE NoDelivery]

\* line of control th of job j goes on as jr
Continue(j, jr) ==
  /\ job' = [job EXCEPT ![j] = jr]
  /\ UNCHANGED currentJobNumber

FinishNoFinally(j, th, jr, end) ==
  /\ job' = [job EXCEPT ![j] = Over(jr, th, end)]
  /\ currentJobNumber' = IF th = "main" /\ end = "returned" THEN currentJobNumber - 1
                         ELSE currentJobNumber

\* line of control th of job j ends: the async function returns or raises.
\* For "main" the finally block of lines 251-253 runs first.
Finish(j, th, jr, end) ==
  /\ job' = [job EXCEPT ![j] = Over(jr, th, end)]
  /\ currentJobNumber' = IF th = "main" THEN currentJobNumber - 1 ELSE currentJobNumber

Return(j, th, jr) == Finish(j, th, jr, IF th = "main" THEN "returned" ELSE "done")

Raise(j, th, jr) == Finish(j, th, jr, IF th = "main" THEN "raised" ELSE "unhandled")

\* the catch of line 249 and the .catch of line 285: pdfFailed is called with e
\* and runs up to its `await LivechatRooms.findOneById`
CallPdfFailed(jr, th, e) == [jr EXCEPT ![th] = [pc |-> "pf.findRoom", e |-> e]]

RemoveAt(s, i) == SubSeq(s, 1, i - 1) \o SubSeq(s, i + 1, Len(s))

\* line 210: the admission test
AtLimitStrict == maxNumberOfConcurrentJobs < currentJobNumber

AtLimit == maxNumberOfConcurrentJobs <= currentJobNumber

WorkOnPdfRejectDrops(j, i) ==
  /\ job[j].main.pc = "idle"
  /\ \A k \in Jobs : k < j => job[k].main.pc # "idle"
  /\ i \in 1..Len(queue)
  /\ AtLimit
  /\ job' = [job EXCEPT ![j].main.pc = "rejected"]
  /\ queue' = RemoveAt(queue, i)
  /\ UNCHANGED <<rooms, users, maxNumberOfConcurrentJobs, currentJobNumber, call, gf>>

\* the queue invokes workOnPdf at the limit: lines 209-213, no suspension.
\* The handler raised 'retry': the queue keeps the item.
WorkOnPdfReject(j, i) ==
  /\ job[j].main.pc = "idle"
  /\ \A k \in Jobs : k < j => job[k].main.pc # "idle"
  /\ i \in 1..Len(queue)
  /\ AtLimit
  /\ job' = [job EXCEPT ![j].main.pc = "rejected"]
  /\ UNCHANGED <<rooms, users, maxNumberOfConcurrentJobs, currentJobNumber, call, queue, gf>>

\* the queue invokes workOnPdf below the limit: lines 209-216
WorkOnPdfAdmit(j, i) ==
  /\ job[j].main.pc = "idle"
  /\ \A k \in Jobs : k < j => job[k].main.pc # "idle"
  /\ i \in 1..Len(queue)
  /\ ~AtLimit
  /\ currentJobNumber' = currentJobNumber + 1
  /\ job' = [job EXCEPT ![j] = [@ EXCEPT !.template = queue[i].data.template,
                                         !.details = queue[i].data.details,
                                         !.main.pc = "findRoom"]]
  /\ queue' = RemoveAt(queue, i)
  /\ UNCHANGED <<rooms, users, maxNumberOfConcurrentJobs, call, gf>>

\* lines 216-220: findOneById answers
JobFindRoom(j) ==
  /\ job[j].main.pc = "findRoom"
  /\ \/ Continue(j, CallPdfFailed(job[j], "main", "store-error"))
     \/ IF ~rooms[job[j].details.rid].exists
        THEN Continue(j, CallPdfFailed(job[j], "main", "room-not-found"))
        ELSE Continue(j, [job[j] EXCEPT !.main.pc = "getData"])
  /\ UNCHANGED <<rooms, users, maxNumberOfConcurrentJobs, call, queue, gf>>

\* lines 220-248: the messages, the visitor, the agent, the files (getFiles,
\* modelled on its own below), the settings and the translations are read one
\* await after the other.  None of them reads or writes what another job
\* writes, so they are one step: all answer, or the first that raises hands
\* its error to the catch: a store call (getMessagesFromRoom, the visitor and
\* agent lookups, the upload lookup of getFiles) or a service call
\* (getFileBuffer, settings, translations).
JobGetData(j) ==
  /\ job[j].main.pc = "getData"
  /\ \/ \E err \in {"store-error", "service-error"} :
          Continue(j, CallPdfFailed(job[j], "main", err))
     \/ Continue(j, [job[j] EXCEPT !.main.pc = "doRender"])
  /\ UNCHANGED <<rooms, users, maxNumberOfConcurrentJobs, call, queue, gf>>

\* lines 256-287 and 248-253: translateToServerLanguage and renderToStream
\* answer (or one raises), the listeners are registered, doRender returns, and
\* workOnPdf returns through its finally block
JobDoRender(j) ==
  /\ job[j].main.pc = "doRender"
  /\ \/ Continue(j, CallPdfFailed(job[j], "main", "service-error"))
     \/ Return(j, "main", [job[j] EXCEPT !.stream.pc = "open"])
  /\ UNCHANGED <<rooms, users, maxNumberOfConcurrentJobs, call, queue, gf>>

\* lines 262-264: the stream emits a chunk
StreamData(j) ==
  /\ job[j].stream.pc = "open"
  /\ Len(job[j].buf) < MaxChunks
  /\ job' = [job EXCEPT ![j].buf = Append(@, Len(@) + 1)]
  /\ UNCHANGED <<rooms, users, maxNumberOfConcurrentJobs, currentJobNumber, call, queue, gf>>

StreamEndReversed(j) ==
  /\ job[j].stream.pc = "open"
  /\ job' = [job EXCEPT ![j] = [@ EXCEPT !.stream.pc = "uploadFile",
                                         !.upload = [k \in 1..Len(job[j].buf) |->
                                                       job[j].buf[Len(job[j].buf) + 1 - k]]]]
  /\ UNCHANGED <<rooms, users, maxNumberOfConcurrentJobs, currentJobNumber, call, queue, gf>>

\* lines 265-283: the stream ends, uploadFile is issued with the chunks
\* concatenated
StreamEnd(j) ==
  /\ job[j].stream.pc = "open"
  /\ job' = [job EXCEPT ![j] = [@ EXCEPT !.stream.pc = "uploadFile", !.upload = job[j].buf]]
  /\ UNCHANGED <<rooms, users, maxNumberOfConcurrentJobs, currentJobNumber, call, queue, gf>>

\* lines 261-286: the stream emits 'error'.  Only 'data' and 'end' have a
\* listener: the error is nobody's, 'end' does not follow, nothing is uploaded
\* and neither pdfComplete nor pdfFailed is called.
StreamError(j) ==
  /\ job[j].stream.pc = "open"
  /\ Raise(j, "stream", job[j])
  /\ UNCHANGED <<rooms, users, maxNumberOfConcurrentJobs, call, queue, gf>>

\* the file record uploadFile answers with
UploadedFile(j) == <<"file", j>>

\* lines 284-285 and 314: uploadFile answers: pdfComplete is called and runs up
\* to its Users.findOneById, or pdfFailed is called.  The stream has ended:
\* nothing reads buf or outBuff any more.
UploadFile(j) ==
  /\ job[j].stream.pc = "uploadFile"
  /\ LET jr == [job[j] EXCEPT !.buf = <<>>, !.upload = <<>>]
     IN \/ Continue(j, CallPdfFailed(jr, "stream", "upload-error"))
        \/ Continue(j, [jr EXCEPT !.file = UploadedFile(j), !.stream.pc = "pc.findUser"])
  /\ UNCHANGED <<rooms, users, maxNumberOfConcurrentJobs, call, queue, gf>>

\* ---------------------------------------------------------------- pdfComplete

\* lines 314-320: Users.findOneById answers.  A rejection of pdfComplete is
\* what the .catch of line 285 hands to pdfFailed.
PdfCompleteFindUser(j) ==
  /\ job[j].stream.pc = "pc.findUser"
  /\ \/ Continue(j, CallPdfFailed(job[j], "stream", "store-error"))
     \/ IF ~users[job[j].details.userId]
        THEN Return(j, "stream", job[j])
        ELSE Continue(j, [job[j] EXCEPT !.stream.pc = "pc.all"])
  /\ UNCHANGED <<rooms, users, maxNumberOfConcurrentJobs, call, queue, gf>>

PdfCompleteAllUncaught(j) ==
  /\ job[j].stream.pc = "pc.all"
  /\ \E setOk \in BOOLEAN, dmOk \in BOOLEAN :
       LET rid == job[j].details.rid
       IN /\ rooms' = IF setOk THEN SetPdfTranscriptFileIdById(rid, job[j].file) ELSE rooms
          /\ IF setOk /\ dmOk
             THEN Continue(j, [job[j] EXCEPT !.dm = DirectRoom(job[j].details.userId, "rocket.cat"),
                                             !.stream.pc = "pc.translate1"])
             ELSE Continue(j, CallPdfFailed(job[j], "stream", "service-error"))
  /\ UNCHANGED <<users, maxNumberOfConcurrentJobs, call, queue, gf>>

\* lines 320-334: setPdfTranscriptFileIdById and createDirectMessage were both
\* issued; each answers or raises; a raise is caught at line 353
PdfCompleteAll(j) ==
  /\ job[j].stream.pc = "pc.all"
  /\ \E setOk \in BOOLEAN, dmOk \in BOOLEAN :
       LET rid == job[j].details.rid
       IN /\ rooms' = IF setOk THEN SetPdfTranscriptFileIdById(rid, job[j].file) ELSE rooms
          /\ IF setOk /\ dmOk
             THEN Continue(j, [job[j] EXCEPT !.dm = DirectRoom(job[j].details.userId, "rocket.cat"),
                                             !.stream.pc = "pc.translate1"])
             ELSE Return(j, "stream", job[j])
  /\ UNCHANGED <<users, maxNumberOfConcurrentJobs, call, queue, gf>>

FileMessageSameRoom(jr, d) ==
  [state |-> "pending",
   roomId |-> <<"room", jr.details.rid>>,
   file |-> jr.file]

\* the sendFileMessage call of lines 327-336 (d1, into the original room) and
\* of lines 338-347 (d2, into the direct conversation)
FileMessage(jr, d) ==
  [state |-> "pending",
   roomId |-> IF d = "d1" THEN <<"room", jr.details.rid>> ELSE jr.dm,
   file |-> jr.file]

\* line 334: translateToServerLanguage answers; the first sendFileMessage is
\* issued
PdfCompleteTranslate1(j) ==
  /\ job[j].stream.pc = "pc.translate1"
  /\ \/ Return(j, "stream", job[j])
     \/ Continue(j, [job[j] EXCEPT !.d1 = FileMessage(job[j], "d1"), !.stream.pc = "pc.translate2"])
  /\ UNCHANGED <<rooms, users, maxNumberOfConcurrentJobs, call, queue, gf>>

\* line 345: translate answers; the second sendFileMessage is issued.  If it
\* raises, pdfComplete returns through its catch while the first
\* sendFileMessage is still on its way.
PdfCompleteTranslate2(j) ==
  /\ job[j].stream.pc = "pc.translate2"
  /\ \/ Return(j, "stream", job[j])
     \/ Continue(j, [job[j] EXCEPT !.d2 = FileMessage(job[j], "d2"), !.stream.pc = "pc.allSettled"])
  /\ UNCHANGED <<rooms, users, maxNumberOfConcurrentJobs, call, queue, gf>>

SendFileMessageFatal(j, d) ==
  /\ job[j][d].state = "pending"
  /\ \E outcome \in {"fulfilled", "rejected"} :
       LET jr == [job[j] EXCEPT ![d].state = outcome]
       IN IF job[j].stream.pc \in StreamOver
          THEN Continue(j, [jr EXCEPT ![d] = NoDelivery])
          ELSE IF outcome = "rejected"
          THEN Continue(j, CallPdfFailed(jr, "stream", "send-error"))
          ELSE IF /\ job[j].stream.pc = "pc.allSettled"
                  /\ jr.d1.state # "pending" /\ jr.d2.state # "pending"
          THEN Return(j, "stream", jr)
          ELSE Continue(j, jr)
  /\ UNCHANGED <<rooms, users, maxNumberOfConcurrentJobs, call, queue, gf>>

\* lines 326-355: a sendFileMessage answers: the file message is in its room,
\* or it raised.  When it is the last of the two that Promise.allSettled waits
\* for, pdfComplete resumes and returns (a rejection is logged, line 354).
SendFileMessage(j, d) ==
  /\ job[j][d].state = "pending"
  /\ \E outcome \in {"fulfilled", "rejected"} :
       LET jr == [job[j] EXCEPT ![d].state = outcome]
       IN IF job[j].stream.pc \in StreamOver
          THEN Continue(j, [jr EXCEPT ![d] = NoDelivery])
          ELSE IF /\ job[j].stream.pc = "pc.allSettled"
                  /\ jr.d1.state # "pending" /\ jr.d2.state # "pending"
          THEN Return(j, "stream", jr)
          ELSE Continue(j, jr)
  /\ UNCHANGED <<rooms, users, maxNumberOfConcurrentJobs, call, queue, gf>>

\* ------------------------------------------------------------------ pdfFailed
\* pdfFailed runs on the line of control th that called it: "main" from the
\* catch of line 249 (awaited), "stream" from the .catch of line 285.

ErrorMessageNoText(jr, th) ==
  [fromId |-> "rocket.cat", rid |-> jr.dm, msg |-> <<"pdf_error_message", ": ">>]

\* the message of lines 305-309
ErrorMessage(jr, th) ==
  [fromId |-> "rocket.cat", rid |-> jr.dm, msg |-> <<"pdf_error_message", ": ", jr[th].e>>]

\* lines 291-295: LivechatRooms.findOneById answers
PdfFailedFindRoom(j, th) ==
  /\ job[j][th].pc = "pf.findRoom"
  /\ \/ Raise(j, th, job[j])
     \/ IF ~rooms[job[j].details.rid].exists
        THEN Return(j, th, job[j])
        ELSE Continue(j, [job[j] EXCEPT ![th].pc = "pf.findUser"])
  /\ UNCHANGED <<rooms, users, maxNumberOfConcurrentJobs, call, queue, gf>>

\* lines 295-301: Users.findOneById answers, the flag is unset only past it
PdfFailedFindUser(j, th) ==
  /\ job[j][th].pc = "pf.findUser"
  /\ \/ Raise(j, th, job[j])
     \/ IF ~users[job[j].details.userId]
        THEN Return(j, th, job[j])
        ELSE Continue(j, [job[j] EXCEPT ![th].pc = "pf.unset"])
  /\ UNCHANGED <<rooms, users, maxNumberOfConcurrentJobs, call, queue, gf>>

\* lines 301-303: unsetTranscriptRequestedPdfById answers
PdfFailedUnset(j, th) ==
  /\ job[j][th].pc = "pf.unset"
  /\ \/ /\ Raise(j, th, job[j])
        /\ UNCHANGED rooms
     \/ /\ rooms' = UnsetTranscriptRequestedPdfById(job[j].details.rid)
        /\ Continue(j, [job[j] EXCEPT ![th].pc = "pf.createDirectMessage"])
  /\ UNCHANGED <<users, maxNumberOfConcurrentJobs, call, queue, gf>>

\* lines 303-308: createDirectMessage answers, then translate('pdf_error_message',
\* user) answers, and sendMessage is issued with the message; or one of the two
\* raises
PdfFailedCreateDirectMessage(j, th) ==
  /\ job[j][th].pc = "pf.createDirectMessage"
  /\ \/ Raise(j, th, job[j])
     \/ LET jr == [job[j] EXCEPT !.dm = DirectRoom(job[j].details.userId, "rocket.cat")]
        IN Continue(j, [jr EXCEPT !.msg = ErrorMessage(jr, th), ![th].pc = "pf.sendMessage"])
  /\ UNCHANGED <<rooms, users, maxNumberOfConcurrentJobs, call, queue, gf>>

\* lines 305-310: sendMessage answers (the message is in the conversation) and
\* pdfFailed returns, or it raises
PdfFailedSendMessage(j, th) ==
  /\ job[j][th].pc = "pf.sendMessage"
  /\ \/ Raise(j, th, job[j])
     \/ Return(j, th, job[j])
  /\ UNCHANGED <<rooms, users, maxNumberOfConcurrentJobs, call, queue, gf>>

\* ---------------------------------------------------------------- environment

\* the room document is removed from the store
DeleteRoom(r) ==
  /\ rooms[r].exists
  /\ rooms' = [rooms EXCEPT ![r] = NoRoom]
  /\ UNCHANGED <<users, maxNumberOfConcurrentJobs, currentJobNumber, call, queue, job, gf>>

\* ------------------------------------------------------------------- getFiles
\* largest number of messages the store answers getMessagesFromRoom with
MaxMessages == 1
\* largest number of attachments of a message
MaxAttachments == 1

Null == "null"

\* title_link values: none, /file-upload/f2/a.png, /avatar/a.png
NoLink == <<>>
Links == {NoLink, <<"file-upload", "f2", "a.png">>, <<"avatar", "a.png">>}

NoFileRef == [_id |-> None, name |-> None]
FileLists == {<<>>, <<[_id |-> "f1", name |-> "a.png"]>>}

\* An attachment together with what the collaborators will answer for it:
\* mimeValid is worker.isMimeTypeValid(image_type), upload is what
\* Uploads.findOneById does, buffer is what uploadService.getFileBuffer does.
Attachments ==
  { a \in [type : {"file", "image"}, mimeValid : BOOLEAN, title : {"a.png"},
           title_link : Links, description : {None, "desc"},
           upload : {"found", "missing", "raise"}, buffer : {"bytes", "raise"}] :
      /\ a.description = (IF a.type = "file" THEN None ELSE "desc")
      /\ a.type # "file" => a.mimeValid
      /\ (a.type # "file" \/ ~a.mimeValid) => (a.title_link = NoLink /\ a.upload = "found")
      /\ a.upload # "found" => a.buffer = "bytes" }

RECURSIVE SeqsUpTo(_, _)
SeqsUpTo(S, n) ==
  IF n = 0 THEN {<<>>}
  ELSE LET shorter == SeqsUpTo(S, n - 1)
       IN shorter \cup {Append(q, x) : q \in {t \in shorter : Len(t) = n - 1}, x \in S}

MessageBodies ==
  { [msg |-> m, files |-> fs, attachments |-> as] :
      m \in {"", "hi"}, fs \in FileLists, as \in SeqsUpTo(Attachments, MaxAttachments) }

\* the lists getMessagesFromRoom answers with: sorted by ts
MessageLists ==
  { [i \in 1..Len(q) |-> [_id |-> <<"m", i>>, ts |-> i, msg |-> q[i].msg,
                           files |-> q[i].files, attachments |-> q[i].attachments]] :
      q \in SeqsUpTo({b \in MessageBodies : b.attachments = <<>> => b.files = <<>>}, MaxMessages) }

\* line 151: title_link?.match(/\/file-upload\/(.*)\/.*/)?.[1]
FileIdFromLink(link) ==
  IF Len(link) >= 3 /\ link[1] = "file-upload" /\ link[2] # "" THEN link[2] ELSE None

\* lines 146-158: the file of the message named like the attachment, else the
\* file the title_link names
LocateFile(message, a) ==
  LET hits == {n \in 1..Len(message.files) : message.files[n].name = a.title}
      fileId == FileIdFromLink(a.title_link)
  IN IF hits # {}
     THEN message.files[CHOOSE n \in hits : \A h \in hits : n <= h]
     ELSE IF fileId = None THEN NoFileRef
     ELSE [_id |-> fileId, name |-> IF a.title = None THEN "upload" ELSE a.title]

Skipped == [kept |-> FALSE, name |-> None, buffer |-> Null]
Entry(n, b) == [kept |-> TRUE, name |-> n, buffer |-> b]

\* lines 131-166: the callback of one attachment up to its first await
StartAttachment(message, a) ==
  IF a.type # "file" THEN [pc |-> "done", file |-> NoFileRef, out |-> Skipped]
  ELSE IF ~a.mimeValid THEN [pc |-> "done", file |-> NoFileRef, out |-> Entry(a.title, Null)]
  ELSE LET file == LocateFile(message, a)
       IN IF file = NoFileRef
          THEN [pc |-> "done", file |-> NoFileRef, out |-> Entry(a.title, Null)]
          ELSE [pc |-> "findOneById", file |-> file, out |-> Skipped]

Slots(messages) ==
  UNION {{<<i, k>> : k \in 1..Len(messages[i].attachments)} : i \in 1..Len(messages)}

RECURSIVE Kept(_)
KeptReversed(outs) ==
  IF outs = <<>> THEN <<>>
  ELSE Kept(Tail(outs)) \o
       (IF Head(outs).kept THEN <<[name |-> Head(outs).name, buffer |-> Head(outs).buffer]>> ELSE <<>>)

\* line 182: files.filter(Boolean), in the order of the attachments
Kept(outs) ==
  IF outs = <<>> THEN <<>>
  ELSE (IF Head(outs).kept THEN <<[name |-> Head(outs).name, buffer |-> Head(outs).buffer]>> ELSE <<>>)
       \o Kept(Tail(outs))

\* lines 124-127 and 178-182: the entry of one message, from its settled tasks
MessageWithFiles(message, task, i) ==
  IF Len(message.attachments) = 0
  THEN [_id |-> message._id, files |-> <<>>, ts |-> message.ts, msg |-> message.msg]
  ELSE LET described == {k \in 1..Len(message.attachments) : message.attachments[k].description # None}
           msg == IF message.msg # "" THEN message.msg
                  ELSE IF described # {}
                  THEN message.attachments[CHOOSE k \in described : \A h \in described : k <= h].description
                  ELSE ""
       IN [_id |-> message._id, msg |-> msg, ts |-> message.ts,
           files |-> Kept([k \in 1..Len(message.attachments) |-> task[<<i, k>>].out])]

\* Promise.all of lines 122 and 129: rejected by the first task that raises,
\* resolved in message order once every task is done
Settle(g) ==
  IF g.state # "pending" THEN g
  ELSE IF \A sl \in DOMAIN g.task : g.task[sl].pc = "done"
  THEN [g EXCEPT !.state = "resolved",
                 !.result = [i \in 1..Len(g.messages) |-> MessageWithFiles(g.messages[i], g.task, i)]]
  ELSE g

\* line 227: getFiles is called; every callback runs up to its first await
CallGetFiles(messages) ==
  Settle([messages |-> messages,
          task |-> [sl \in Slots(messages) |->
                      StartAttachment(messages[sl[1]], messages[sl[1]].attachments[sl[2]])],
          state |-> "pending", e |-> None, result |-> <<>>, next |-> "getFiles",
          settled |-> <<>>])

GfIdle == [messages |-> <<>>, task |-> <<>>, state |-> "idle", e |-> None,
           result |-> <<>>, next |-> "none", settled |-> <<>>]

\* a task raised: it rejects its Promise.all, which rejects getFiles, once
Reject(g, sl, e) ==
  [g EXCEPT !.task[sl].pc = "raised",
            !.state = IF @ = "pending" THEN "rejected" ELSE @,
            !.e = IF g.state = "pending" THEN e ELSE @]

\* lines 166-173: Uploads.findOneById answers
GfFindOneById(sl) ==
  /\ sl \in DOMAIN gf.task
  /\ gf.task[sl].pc = "findOneById"
  /\ LET a == gf.messages[sl[1]].attachments[sl[2]]
         t == gf.task[sl]
     IN gf' = IF a.upload = "raise" THEN Reject(gf, sl, "store-error")
              ELSE IF a.upload = "missing"
              THEN Settle([gf EXCEPT !.task[sl] = [t EXCEPT !.pc = "done", !.out = Entry(t.file.name, Null)],
                                     !.settled = Append(@, sl)])
              ELSE [gf EXCEPT !.task[sl].pc = "getFileBuffer"]
  /\ UNCHANGED <<rooms, users, maxNumberOfConcurrentJobs, currentJobNumber, call, queue, job>>

\* lines 173-174: getFileBuffer answers
GfGetFileBuffer(sl) ==
  /\ sl \in DOMAIN gf.task
  /\ gf.task[sl].pc = "getFileBuffer"
  /\ LET a == gf.messages[sl[1]].attachments[sl[2]]
         t == gf.task[sl]
     IN gf' = IF a.buffer = "raise" THEN Reject(gf, sl, "buffer-error")
              ELSE Settle([gf EXCEPT !.task[sl] = [t EXCEPT !.pc = "done", !.out = Entry(t.file.name, a.buffer)],
                                     !.settled = Append(@, sl)])
  /\ UNCHANGED <<rooms, users, maxNumberOfConcurrentJobs, currentJobNumber, call, queue, job>>

\* lines 227-229 and 249-250: workOnPdf resumes after `await this.getFiles`:
\* it goes on to the settings and the rendering, or to its catch
GfResume ==
  /\ gf.next = "getFiles"
  /\ gf.state \in {"resolved", "rejected"}
  /\ gf' = [gf EXCEPT !.next = IF gf.state = "resolved" THEN "settings" ELSE "pdfFailed"]
  /\ UNCHANGED <<rooms, users, maxNumberOfConcurrentJobs, currentJobNumber, call, queue, job>>

\* one getFiles call on every message list, the service otherwise at rest
InitFiles ==
  /\ rooms = [r \in Rooms |-> NoRoom]
  /\ users = [u \in Users |-> TRUE]
  /\ maxNumberOfConcurrentJobs = MaxLimit
  /\ currentJobNumber = 0
  /\ call = [c \in Calls |-> IdleCall]
  /\ queue = <<>>
  /\ job = [j \in Jobs |-> IdleJob]
  /\ \E messages \in MessageLists : gf = CallGetFiles(messages)

NextFiles ==
  \/ \E sl \in DOMAIN gf.task : GfFindOneById(sl)
  \/ \E sl \in DOMAIN gf.task : GfGetFileBuffer(sl)
  \/ GfResume

SpecFiles == InitFiles /\ [][NextFiles]_vars

\* largest number of messages of a list whose attachments all resolve
OrderMessages == 2
\* largest number of attachments such a list carries, all messages together
OrderAttachments == 3

\* the files of a message that uploaded a.png and b.png
OrderFiles == <<[_id |-> "f1", name |-> "a.png"], [_id |-> "f2", name |-> "b.png"]>>

\* attachments no collaborator raises for: a file that is found and read (two
\* awaits), a file whose upload record is gone (one await), an image quote
\* (no await, no entry)
OrderPool ==
  { [type |-> "file", mimeValid |-> TRUE, title |-> "a.png", title_link |-> NoLink,
     description |-> None, upload |-> "found", buffer |-> "bytes"],
    [type |-> "file", mimeValid |-> TRUE, title |-> "b.png", title_link |-> NoLink,
     description |-> None, upload |-> "missing", buffer |-> "bytes"],
    [type |-> "image", mimeValid |-> TRUE, title |-> "a.png", title_link |-> NoLink,
     description |-> "desc", upload |-> "found", buffer |-> "bytes"] }

\* the attachment lists of at most n messages carrying at most b attachments
RECURSIVE OrderSeqs(_, _)
OrderSeqs(n, b) ==
  IF n = 0 THEN {<<>>}
  ELSE {<<>>} \cup
       UNION { { <<as>> \o rest : rest \in OrderSeqs(n - 1, b - Len(as)) } :
                 as \in SeqsUpTo(OrderPool, b) }

\* the lists getMessagesFromRoom answers with: sorted by ts
OrderLists ==
  { [i \in 1..Len(q) |-> [_id |-> <<"m", i>>, ts |-> i, msg |-> "hi",
                           files |-> OrderFiles, attachments |-> q[i]]] :
      q \in OrderSeqs(OrderMessages, OrderAttachments) }

\* one getFiles call on a list of several messages, the service otherwise at rest
InitOrder ==
  /\ rooms = [r \in Rooms |-> NoRoom]
  /\ users = [u \in Users |-> TRUE]
  /\ maxNumberOfConcurrentJobs = MaxLimit
  /\ currentJobNumber = 0
  /\ call = [c \in Calls |-> IdleCall]
  /\ queue = <<>>
  /\ job = [j \in Jobs |-> IdleJob]
  /\ \E messages \in OrderLists : gf = CallGetFiles(messages)

SpecOrder == InitOrder /\ [][NextFiles]_vars

\* ---------------------------------------------------------------- the service

Init ==
  /\ rooms \in [Rooms -> RoomDocs]
  /\ users \in [Users -> BOOLEAN]
  /\ maxNumberOfConcurrentJobs \in 1..MaxLimit
  /\ currentJobNumber = 0
  /\ call = [c \in Calls |-> IdleCall]
  /\ queue = <<>>
  /\ job = [j \in Jobs |-> IdleJob]
  /\ gf = GfIdle

Next ==
  \/ \E c \in Calls, r \in Rooms, u \in Users : RequestTranscript(c, r, u)
  \/ \E c \in Calls : ReqSetRequested(c)
  \/ \E c \in Calls : ReqQueueWork(c)
  \/ \E j \in Jobs, i \in 1..NumCalls : WorkOnPdfReject(j, i)
  \/ \E j \in Jobs, i \in 1..NumCalls : WorkOnPdfAdmit(j, i)
  \/ \E j \in Jobs : JobFindRoom(j)
  \/ \E j \in Jobs : JobGetData(j)
  \/ \E j \in Jobs : JobDoRender(j)
  \/ \E j \in Jobs : StreamData(j)
  \/ \E j \in Jobs : StreamEnd(j)
  \/ \E j \in Jobs : StreamError(j)
  \/ \E j \in Jobs : UploadFile(j)
  \/ \E j \in Jobs : PdfCompleteFindUser(j)
  \/ \E j \in Jobs : PdfCompleteAll(j)
  \/ \E j \in Jobs : PdfCompleteTranslate1(j)
  \/ \E j \in Jobs : PdfCompleteTranslate2(j)
  \/ \E j \in Jobs, d \in {"d1", "d2"} : SendFileMessage(j, d)
  \/ \E j \in Jobs, th \in Threads : PdfFailedFindRoom(j, th)
  \/ \E j \in Jobs, th \in Threads : PdfFailedFindUser(j, th)
  \/ \E j \in Jobs, th \in Threads : PdfFailedUnset(j, th)
  \/ \E j \in Jobs, th \in Threads : PdfFailedCreateDirectMessage(j, th)
  \/ \E j \in Jobs, th \in Threads : PdfFailedSendMessage(j, th)
  \/ \E r \in Rooms : DeleteRoom(r)

Spec == Init /\ [][Next]_vars

\* ---------------------------------------------------------- the queue's retry
\* The queue has the 'retry' of invocation j: the invocation is over, and
\* the queue, which kept the item, will invoke the handler again.
QueueRetry(j) ==
  /\ job[j].main.pc = "rejected"
  /\ job' = [job EXCEPT ![j] = IdleJob]
  /\ UNCHANGED <<rooms, users, maxNumberOfConcurrentJobs, currentJobNumber, call, queue, gf>>

NextRetry ==
  \/ Next
  \/ \E j \in Jobs : QueueRetry(j)

\* a collaborator answers an await of job j, or its stream ends or fails
JobStep(j) ==
  \/ JobFindRoom(j) \/ JobGetData(j) \/ JobDoRender(j)
  \/ StreamEnd(j) \/ StreamError(j) \/ UploadFile(j)
  \/ PdfCompleteFindUser(j) \/ PdfCompleteAll(j)
  \/ PdfCompleteTranslate1(j) \/ PdfCompleteTranslate2(j)
  \/ \E d \in {"d1", "d2"} : SendFileMessage(j, d)
  \/ \E th \in Threads :
       \/ PdfFailedFindRoom(j, th) \/ PdfFailedFindUser(j, th) \/ PdfFailedUnset(j, th)
       \/ PdfFailedCreateDirectMessage(j, th) \/ PdfFailedSendMessage(j, th)

\* An await is answered or rejected in the end, a stream ends or fails, and
\* the queue goes on invoking the handler for the items it holds: as long as a
\* job waits for an answer or an item can be admitted, one of these happens.
Fairness ==
  /\ WF_vars(\/ \E j \in Jobs : JobStep(j)
             \/ \E j \in Jobs, i \in 1..NumCalls : WorkOnPdfAdmit(j, i))
  /\ WF_vars(\E j \in Jobs : QueueRetry(j))

SpecFair == Init /\ [][NextRetry]_vars /\ Fairness

\* ----------------------------------------------------- at-least-once delivery
\* The queue delivers an item more than once: the item invocation j was made
\* with is in the queue again.
Redeliver(j) ==
  /\ job[j].details # NoDetails
  /\ Len(queue) < NumCalls
  /\ queue' = Append(queue, [queue |-> "work",
                             to |-> <<name, "workOnPdf">>,
                             data |-> [template |-> job[j].template, details |-> job[j].details]])
  /\ UNCHANGED <<rooms, users, maxNumberOfConcurrentJobs, currentJobNumber, call, job, gf>>

NextRedelivery ==
  \/ Next
  \/ \E j \in Jobs : Redeliver(j)

SpecRedelivery == Init /\ [][NextRedelivery]_vars

\* ------------------------------------------------------------------ properties

ValidationErrors == {"room-not-found", "room-still-open", "improper-room-state"}

\* call c is made in this step, for room r, and its findOneById answers
Called(c, r) ==
  /\ call[c].pc = "idle"
  /\ call'[c].pc # "idle"
  /\ call'[c].rid = r
  /\ call'[c].result # "store-error"

\* C1: a requestTranscript call that reads a room document which is open ends
\* with the room-still-open error and leaves the rooms and the queue as they
\* were; the call is over, so it writes and enqueues nothing afterwards either.
C1_OpenRoomIsRefused ==
  /\ [][\A c \in Calls, r \in Rooms :
          (Called(c, r) /\ rooms[r].exists /\ rooms[r].open) =>
            /\ call'[c].pc = "done"
            /\ call'[c].result = "room-still-open"
            /\ rooms' = rooms
            /\ queue' = queue]_vars
  /\ [][\A c \in Calls :
          call[c].result = "room-still-open" => call'[c] = call[c]]_vars

C1_Witness ==
  \E c \in Calls :
    /\ call[c].pc = "done"
    /\ call[c].result = "room-still-open"
    /\ rooms[call[c].rid].open
    /\ ~rooms[call[c].rid].pdfTranscriptRequested
    /\ queue = <<>>

\* C2: a requestTranscript call that reads a closed, served, visited room
\* already flagged pending returns without error and leaves the rooms and the
\* queue as they were, however many such calls are made.
C2_PendingRoomIsNoOp ==
  [][\A c \in Calls, r \in Rooms :
       (/\ Called(c, r)
        /\ rooms[r].exists /\ ~rooms[r].open
        /\ rooms[r].servedBy /\ rooms[r].v
        /\ rooms[r].pdfTranscriptRequested) =>
         /\ call'[c].pc = "done"
         /\ call'[c].result = "ok"
         /\ rooms' = rooms
         /\ queue' = queue]_vars

\* a call has set the flag and is suspended on its enqueue; another call made
\* since has returned without error, and nothing was ever enqueued
C2_Witness ==
  \E c, d \in Calls :
    /\ d < c
    /\ call[d].pc = "queueWork"
    /\ call[c].pc = "done" /\ call[c].result = "ok" /\ call[c].rid = call[d].rid
    /\ rooms[call[c].rid].pdfTranscriptRequested
    /\ queue = <<>>
    /\ \A j \in Jobs : job[j].main.pc = "idle"

\* C3: concurrent duplicate requests enqueue at most one work item for the
\* room: as long as no workOnPdf invocation has started (so the flag was never
\* cleared and every item ever enqueued is still in the queue), the queue
\* holds at most one item per room.
C3_OneItemPerRoom ==
  (\A j \in Jobs : job[j].main.pc = "idle") =>
    \A r \in Rooms :
      Cardinality({i \in 1..Len(queue) : queue[i].data.details.rid = r}) <= 1

\* C4: a workOnPdf invocation made while the counter has reached the maximum
\* raises 'retry' and leaves the counter, the rooms and the queue as they were;
\* the invocation is over at once: it never looks a room up, uploads or
\* notifies.
C4_RejectedAtLimit ==
  /\ [][\A j \in Jobs :
          (/\ job[j].main.pc = "idle"
           /\ job'[j].main.pc # "idle"
           /\ maxNumberOfConcurrentJobs <= currentJobNumber) =>
            /\ job'[j] = [IdleJob EXCEPT !.main.pc = "rejected"]
            /\ currentJobNumber' = currentJobNumber
            /\ rooms' = rooms
            /\ queue' = queue]_vars
  /\ [][\A j \in Jobs :
          job[j].main.pc = "rejected" => job'[j] = job[j]]_vars

C4_Witness ==
  \E j \in Jobs :
    /\ job[j] = [IdleJob EXCEPT !.main.pc = "rejected"]
    /\ currentJobNumber = maxNumberOfConcurrentJobs
    /\ queue # <<>>

\* an admitted job that has not finished: it is still fetching, rendering,
\* uploading or delivering
Executing(j) ==
  \/ job[j].main.pc \notin {"idle"} \cup MainOver
  \/ job[j].stream.pc \notin {"none"} \cup StreamOver
  \/ job[j].d1.state = "pending"
  \/ job[j].d2.state = "pending"

\* C5: the number of admitted jobs that have not finished never exceeds
\* maxNumberOfConcurrentJobs.
C5_ExecutingJobsCapped ==
  Cardinality({j \in Jobs : Executing(j)}) <= maxNumberOfConcurrentJobs

\* line of control th of job j is over
ThreadOver(jr, th) ==
  IF th = "main" THEN jr.main.pc \in MainOver ELSE jr.stream.pc \in StreamOver

\* pdfFailed is handling a document-store error on line of control th of job j
\* and is past its two lookups: it found the room and the user
StoreFailureFound(j, th) ==
  /\ job[j][th].e = "store-error"
  /\ job[j][th].pc \in {"pf.unset", "pf.createDirectMessage", "pf.sendMessage"}

Quiet ==
  /\ \A c \in Calls : call[c].pc \in {"idle", "done"} /\ call[c].result # "queue-error"
  /\ queue = <<>>
  /\ \A j \in Jobs :
       /\ job[j].main.pc \in {"idle", "rejected", "returned"}
       /\ job[j].stream.pc \in {"none", "done"}
       /\ job[j].d1.state # "pending" /\ job[j].d2.state # "pending"

\* C7: once the admitted jobs have finished (pdfComplete or pdfFailed has
\* returned), a room that still exists is not left pending: its flag is cleared
\* or it has a transcript file reference.
C7_NoRoomLeftPending ==
  Quiet =>
    \A r \in Rooms :
      (rooms[r].exists /\ rooms[r].pdfTranscriptRequested) =>
        rooms[r].pdfTranscriptFileId # NoFile

\* C8: when its lookup answers, requestTranscript raises room-not-found for a
\* missing room, room-still-open for an open one, improper-room-state for a
\* closed one without serving agent or visitor, the checks taken in that
\* order; a call that raises one of them leaves the rooms and the queue as
\* they were and is over.
C8_ValidationOrder ==
  /\ [][\A c \in Calls, r \in Rooms :
          Called(c, r) =>
            /\ (call'[c].result = "room-not-found") = ~rooms[r].exists
            /\ (call'[c].result = "room-still-open") = (rooms[r].exists /\ rooms[r].open)
            /\ (call'[c].result = "improper-room-state") =
                 (/\ rooms[r].exists /\ ~rooms[r].open
                  /\ (~rooms[r].servedBy \/ ~rooms[r].v))
            /\ call'[c].result \in ValidationErrors =>
                 (call'[c].pc = "done" /\ rooms' = rooms /\ queue' = queue)]_vars
  /\ [](\A c \in Calls : call[c].result \in ValidationErrors => call[c].pc = "done")
  /\ [][\A c \in Calls : call[c].pc = "done" => call'[c].pc = "done"]_vars

\* an open room without serving agent: the open check comes first
C8_Witness ==
  \E c \in Calls :
    /\ call[c].result = "room-still-open"
    /\ rooms[call[c].rid].exists
    /\ rooms[call[c].rid].open
    /\ ~rooms[call[c].rid].servedBy

\* C9: a requestTranscript call that passed the checks on a room not yet
\* pending is suspended on the flag write with nothing enqueued; the write
\* sets the flag and enqueues nothing (or raises, and the call is over); only
\* then is the item appended, one per call, and it names the workOnPdf handler
\* of this service and carries the call's room id and user id and the service
\* name as source.
C9_FlagThenOneItem ==
  /\ [][\A c \in Calls :
          (call[c].pc = "idle" /\ call'[c].pc \notin {"idle", "done"}) =>
            (call'[c].pc = "setRequested" /\ rooms' = rooms /\ queue' = queue)]_vars
  /\ [][\A c \in Calls :
          (call[c].pc = "setRequested" /\ call'[c] # call[c]) =>
            /\ queue' = queue
            /\ \/ call'[c].pc = "done" /\ call'[c].result = "store-error"
               \/ /\ call'[c].pc = "queueWork"
                  /\ rooms[call[c].rid].exists => rooms'[call[c].rid].pdfTranscriptRequested]_vars
  /\ [][\A c \in Calls :
          (call[c].pc = "queueWork" /\ call'[c] # call[c]) =>
            /\ call'[c].pc = "done"
            /\ queue' =
                 IF call'[c].result = "ok"
                 THEN Append(queue,
                        [queue |-> "work",
                         to |-> <<"omnichannel-transcript", "workOnPdf">>,
                         data |-> [template |-> "omnichannel-transcript",
                                   details |-> [userId |-> call[c].userId, rid |-> call[c].rid,
                                                from |-> "omnichannel-transcript"]]])
                 ELSE queue]_vars
  /\ [][Len(queue') > Len(queue) =>
          /\ Len(queue') = Len(queue) + 1
          /\ \E c \in Calls : call[c].pc = "queueWork" /\ call'[c].pc = "done"]_vars

C9_Witness ==
  \E c \in Calls :
    /\ call[c].pc = "done" /\ call[c].result = "ok"
    /\ Len(queue) = 1
    /\ queue[1].data.details = [userId |-> call[c].userId, rid |-> call[c].rid, from |-> name]
    /\ rooms[call[c].rid].pdfTranscriptRequested
    /\ \A d \in Calls : d # c => call[d].pc = "idle"

\* an attachment of type file that cannot be resolved to a buffer
Unresolvable(message, a) ==
  /\ a.type = "file"
  /\ \/ ~a.mimeValid
     \/ LocateFile(message, a) = NoFileRef
     \/ a.upload # "found"
     \/ a.buffer = "raise"

\* C10: no attachment failure aborts the job: getFiles never rejects, workOnPdf
\* goes on to the rendering, and every attachment that cannot be resolved
\* (invalid mime type, file not located, upload record missing or its lookup
\* raising, buffer retrieval raising) is an entry with a null buffer.
C10_AttachmentFailuresArePlaceholders ==
  /\ gf.state # "rejected"
  /\ gf.next # "pdfFailed"
  /\ gf.state = "resolved" =>
       \A sl \in DOMAIN gf.task :
         Unresolvable(gf.messages[sl[1]], gf.messages[sl[1]].attachments[sl[2]]) =>
           (gf.task[sl].out.kept /\ gf.task[sl].out.buffer = Null)

\* what the callback of attachment a of a message resolves to when it runs
\* alone: nothing, or one file entry
Resolution(message, a) ==
  LET t == StartAttachment(message, a)
  IN IF t.pc = "done" THEN t.out
     ELSE IF a.upload = "missing" THEN Entry(t.file.name, Null)
     ELSE Entry(t.file.name, a.buffer)

\* the file entries of a message: the resolutions of its attachments that
\* yield an entry, in the order of the attachments
ResolvedFiles(message) ==
  LET all == [k \in 1..Len(message.attachments) |-> Resolution(message, message.attachments[k])]
      kept == SelectSeq(all, LAMBDA o : o.kept)
  IN [k \in 1..Len(kept) |-> [name |-> kept[k].name, buffer |-> kept[k].buffer]]

\* C11: whatever the order in which the lookups and the buffer reads answer,
\* the list getFiles resolves to has the length of the message list, its i-th
\* entry is the one of the i-th message, and the files of an entry are the
\* resolutions of the message's attachments in the attachments' order.
C11_ResolutionKeepsOrder ==
  gf.state = "resolved" =>
    /\ Len(gf.result) = Len(gf.messages)
    /\ \A i \in 1..Len(gf.messages) :
         /\ gf.result[i]._id = gf.messages[i]._id
         /\ gf.result[i].ts = gf.messages[i].ts
         /\ gf.result[i].files = ResolvedFiles(gf.messages[i])

\* two messages with different files, the second one's lookup answered first;
\* and a message with two files, the second one's answered first
C11_Witness ==
  /\ gf.state = "resolved"
  /\ Len(gf.messages) = 2
  /\ gf.result[1].files # <<>>
  /\ gf.result[2].files # <<>>
  /\ gf.result[1].files[1] # gf.result[2].files[1]
  /\ \E p, q \in 1..Len(gf.settled) :
       p < q /\ gf.settled[p][1] = 2 /\ gf.settled[q][1] = 1
  /\ \E i \in 1..2 :
       /\ Len(gf.result[i].files) = 2
       /\ gf.result[i].files[1] # gf.result[i].files[2]
       /\ \E p, q \in 1..Len(gf.settled) :
            /\ p < q
            /\ gf.settled[p][1] = i /\ gf.settled[q][1] = i
            /\ gf.settled[p][2] > gf.settled[q][2]

\* the stages of the 'end' listener's chain when nothing fails, in order
Stage(pc) ==
  CASE pc = "none" -> 0
    [] pc = "open" -> 1
    [] pc = "uploadFile" -> 2
    [] pc = "pc.findUser" -> 3
    [] pc = "pc.all" -> 4
    [] pc = "pc.translate1" -> 5
    [] pc = "pc.translate2" -> 6
    [] pc = "pc.allSettled" -> 7
    [] pc = "done" -> 8
    [] OTHER -> 9

\* the stream line of job j moves in this step
Moves(j) == job'[j].stream.pc # job[j].stream.pc

\* C12: a request for a closed room with agent and visitor whose collaborators
\* answer appends one work item; the job made from it goes through the stages
\* of the chain one after the other, each once: the one uploadFile call
\* answers with the one document, the file reference of the room is written
\* in the one step that leaves Promise.all, with that document, and the
\* document is sent in two sendFileMessage calls, the first into the room, the
\* second into the direct conversation of rocket.cat and the requester; the
\* job is complete when both have answered.
C12_OneDocumentTwoDeliveries ==
  /\ [][\A c \in Calls :
          (call[c].pc = "queueWork" /\ call'[c].result = "ok") =>
            /\ Len(queue') = Len(queue) + 1
            /\ queue'[Len(queue')].data.details.rid = call[c].rid
            /\ queue'[Len(queue')].data.details.userId = call[c].userId]_vars
  /\ [][\A j \in Jobs :
          (Moves(j) /\ Stage(job[j].stream.pc) < 8 /\ Stage(job'[j].stream.pc) < 9) =>
            \/ Stage(job'[j].stream.pc) = Stage(job[j].stream.pc) + 1
            \/ job'[j].stream.pc = "done"]_vars
  /\ [][\A j \in Jobs :
          (job'[j].file # job[j].file /\ job'[j].file # NoFile) =>
            /\ job[j].stream.pc = "uploadFile"
            /\ job'[j].stream.pc = "pc.findUser"
            /\ job'[j].file = <<"file", j>>]_vars
  /\ [][\A r \in Rooms :
          (/\ rooms'[r].pdfTranscriptFileId # rooms[r].pdfTranscriptFileId
           /\ rooms'[r].pdfTranscriptFileId # NoFile) =>
            \E j \in Jobs :
              /\ job[j].stream.pc = "pc.all" /\ Moves(j)
              /\ job[j].details.rid = r
              /\ rooms'[r].pdfTranscriptFileId = job[j].file
              /\ job[j].file = <<"file", j>>]_vars
  /\ [][\A j \in Jobs :
          (job[j].stream.pc = "pc.all" /\ job'[j].stream.pc = "pc.translate1") =>
            (rooms[job[j].details.rid].exists =>
               rooms'[job[j].details.rid].pdfTranscriptFileId = job[j].file)]_vars
  /\ [][\A j \in Jobs :
          (job'[j].d1.state = "pending" /\ job[j].d1.state # "pending") =>
            /\ job[j].stream.pc = "pc.translate1"
            /\ job'[j].stream.pc = "pc.translate2"
            /\ job'[j].d1.roomId = <<"room", job[j].details.rid>>
            /\ job'[j].d1.file = <<"file", j>>]_vars
  /\ [][\A j \in Jobs :
          (job'[j].d2.state = "pending" /\ job[j].d2.state # "pending") =>
            /\ job[j].stream.pc = "pc.translate2"
            /\ job'[j].stream.pc = "pc.allSettled"
            /\ job'[j].d2.roomId = <<"dm", "rocket.cat", job[j].details.userId>>
            /\ job'[j].d2.file = <<"file", j>>]_vars
  /\ [][\A j \in Jobs :
          (job[j].stream.pc = "pc.allSettled" /\ Moves(j)) =>
            /\ job'[j].stream.pc = "done"
            /\ job'[j].d1.state # "pending" /\ job'[j].d2.state # "pending"
            /\ (job[j].d1.state = "pending") # (job[j].d2.state = "pending")]_vars

\* one request, one job: the item was consumed, the document is on the room,
\* the file message into the room is delivered and the one into the direct
\* conversation is on its way
C12_Witness ==
  \E j \in Jobs :
    /\ job[j].stream.pc = "pc.allSettled"
    /\ job[j].main.pc = "returned"
    /\ job[j].d1 = [state |-> "fulfilled", roomId |-> <<"room", "r1">>, file |-> <<"file", j>>]
    /\ job[j].d2 = [state |-> "pending", roomId |-> <<"dm", "rocket.cat", "u1">>, file |-> <<"file", j>>]
    /\ rooms["r1"].pdfTranscriptFileId = <<"file", j>>
    /\ queue = <<>>
    /\ \A k \in Jobs : k # j => job[k].main.pc = "idle"
    /\ Cardinality({c \in Calls : call[c].pc # "idle"}) = 1

\* C13: when, in pdfFailed called from the catch of an admitted job, the
\* creation of the direct conversation, the translation of the error text or
\* the sending of the error message raises, workOnPdf returns without raising
\* and the counter is counted down.
C13_NotificationFailureSwallowed ==
  [][\A j \in Jobs :
       (/\ job[j].main.pc \in {"pf.createDirectMessage", "pf.sendMessage"}
        /\ job'[j].main.pc \in MainOver) =>
         /\ job'[j].main.pc = "returned"
         /\ currentJobNumber' = currentJobNumber - 1]_vars

\* workOnPdf invocation j is in progress: admitted and not yet returned or
\* raised
Running(j) == job[j].main.pc \notin {"idle"} \cup MainOver

\* C14: the counter stays between 0 and maxNumberOfConcurrentJobs; an
\* invocation that is admitted counts it up by one, an invocation that ends,
\* by returning or by raising out of the failure handler, counts it down by
\* one, a rejected invocation leaves it alone, nothing else changes it; and it
\* is 0 when no invocation is in progress.
C14_CounterReleasedOnce ==
  /\ [](currentJobNumber \in 0..maxNumberOfConcurrentJobs)
  /\ []((\A j \in Jobs : ~Running(j)) => currentJobNumber = 0)
  /\ [][\A j \in Jobs :
          /\ (job[j].main.pc = "idle" /\ job'[j].main.pc = "rejected") =>
               currentJobNumber' = currentJobNumber
          /\ (job[j].main.pc = "idle" /\ job'[j].main.pc \notin {"idle", "rejected"}) =>
               (job'[j].main.pc = "findRoom" /\ currentJobNumber' = currentJobNumber + 1)
          /\ (Running(j) /\ job'[j].main.pc \in MainOver) =>
               currentJobNumber' = currentJobNumber - 1
          /\ job[j].main.pc \in MainOver => job'[j].main.pc = job[j].main.pc]_vars
  /\ [][currentJobNumber' # currentJobNumber =>
          \E j \in Jobs :
            /\ Running(j) # (job'[j].main.pc \notin {"idle"} \cup MainOver)
            /\ \A k \in Jobs : k # j => job'[k].main.pc = job[k].main.pc]_vars

\* one invocation left through the failure handler's own error, another
\* returned, and the counter is back at 0
C14_Witness ==
  /\ currentJobNumber = 0
  /\ \E j, k \in Jobs : job[j].main.pc = "raised" /\ job[k].main.pc = "returned"

\* job j is in pdfComplete or in pdfFailed
InPdfComplete(j) ==
  job[j].stream.pc \in {"pc.findUser", "pc.all", "pc.translate1", "pc.translate2", "pc.allSettled"}

InPdfFailed(j) ==
  \E th \in Threads :
    job[j][th].pc \in {"pf.findRoom", "pf.findUser", "pf.unset", "pf.createDirectMessage",
                       "pf.sendMessage"}

\* C15: when every await is answered in the end and every stream ends or
\* fails, an admitted job gets to pdfComplete or to pdfFailed; a job whose
\* render stream is open gets there too, whether the stream ends or fails.
C15_AdmittedJobCompletesOrFails ==
  \A j \in Jobs :
    /\ (job[j].main.pc = "findRoom") ~> (InPdfComplete(j) \/ InPdfFailed(j))
    /\ (job[j].stream.pc = "open") ~> (InPdfComplete(j) \/ InPdfFailed(j))

\* C16: the chunks arrive while the stream is open and only then; uploadFile
\* is issued once per job, by the step in which the stream ends, with the
\* chunks emitted, all of them, in the order of their arrival; and while the
\* stream is open the job has uploaded nothing, has no document, has sent no
\* file message and has not written a file reference.
C16_StreamDrainedBeforeUpload ==
  /\ [][\A j \in Jobs :
          (job'[j].buf # job[j].buf /\ job'[j].buf # <<>>) =>
            /\ job[j].stream.pc = "open" /\ job'[j].stream.pc = "open"
            /\ job'[j].buf = Append(job[j].buf, Len(job[j].buf) + 1)]_vars
  /\ [][\A j \in Jobs :
          (job'[j].stream.pc = "uploadFile" /\ job[j].stream.pc # "uploadFile") =>
            /\ job[j].stream.pc = "open"
            /\ job'[j].upload = [k \in 1..Len(job[j].buf) |-> k]
            /\ job'[j].buf = job[j].buf]_vars
  /\ [][\A j \in Jobs :
          (job'[j].stream.pc = "open" /\ job[j].stream.pc # "open") =>
            job[j].stream.pc = "none"]_vars
  /\ [][\A j \in Jobs :
          job'[j].upload # job[j].upload =>
            \/ job[j].stream.pc = "open" /\ job'[j].stream.pc = "uploadFile"
            \/ job[j].stream.pc = "uploadFile" /\ job'[j].upload = <<>>]_vars
  /\ [](\A j \in Jobs :
          job[j].stream.pc \in {"none", "open"} =>
            /\ job[j].upload = <<>>
            /\ job[j].file = NoFile
            /\ job[j].d1 = NoDelivery /\ job[j].d2 = NoDelivery
            /\ \A r \in Rooms : rooms[r].pdfTranscriptFileId # <<"file", j>>)

\* the stream emitted two chunks and ended: uploadFile is on its way with both
C16_Witness ==
  \E j \in Jobs :
    /\ job[j].stream.pc = "uploadFile"
    /\ job[j].buf = <<1, 2>>
    /\ job[j].upload = <<1, 2>>
    /\ job[j].file = NoFile

\* pdfComplete of job j is past its Promise.all: the file reference is written
Delivering(j) == job[j].stream.pc \in {"pc.translate1", "pc.translate2", "pc.allSettled"}

\* C17: once pdfComplete has written the file reference, no step of the job
\* touches the rooms, calls pdfFailed or raises, whatever the sendFileMessage
\* calls answer; the second call is issued though the first has failed;
\* pdfComplete returns only when both have answered; a delivery that
\* succeeded stays so, a call still pending stays pending until it answers.
C17_PartialDeliveryNotCompensated ==
  /\ [][\A j \in Jobs :
          (Delivering(j) /\ job'[j] # job[j]) =>
            /\ rooms' = rooms
            /\ job'[j].stream.pc \in {"pc.translate1", "pc.translate2", "pc.allSettled", "done"}
            /\ job'[j].main = job[j].main]_vars
  /\ [][\A j \in Jobs :
          (job[j].stream.pc = "pc.translate2" /\ job'[j].stream.pc = "pc.allSettled") =>
            /\ job'[j].d2.state = "pending"
            /\ job'[j].d1 = job[j].d1]_vars
  /\ [][\A j \in Jobs :
          (job[j].stream.pc = "pc.allSettled" /\ job'[j].stream.pc # "pc.allSettled") =>
            /\ job'[j].stream.pc = "done"
            /\ job'[j].d1.state # "pending" /\ job'[j].d2.state # "pending"]_vars
  /\ [][\A j \in Jobs, d \in {"d1", "d2"} :
          (Delivering(j) /\ job[j][d].state = "fulfilled") =>
            (job'[j][d] = job[j][d] \/ job'[j].stream.pc = "done")]_vars
  /\ [][\A j \in Jobs, d \in {"d1", "d2"} :
          (job[j][d].state = "pending" /\ job'[j][d] # job[j][d]) =>
            /\ job'[j][d].state \in {"fulfilled", "rejected", "none"}
            /\ \A o \in {"d1", "d2"} \ {d} :
                 job[j][o].state = "pending" => job'[j][o] = job[j][o]]_vars

\* the delivery into the room has failed, the one into the direct
\* conversation is on its way, and the room has the document
C17_Witness ==
  \E j \in Jobs :
    /\ job[j].stream.pc = "pc.allSettled"
    /\ job[j].d1.state = "rejected"
    /\ job[j].d2.state = "pending"
    /\ rooms[job[j].details.rid].pdfTranscriptFileId = <<"file", j>>

\* one transcript request was made, no other
OneRequest == Cardinality({c \in Calls : call[c].pc # "idle"}) = 1

\* C18: when the queue delivers the item of one request more than once, the
\* request still yields one document: no two invocations hold an uploaded
\* document, and a file reference once written on the room is not written
\* again.
C18_ConsumedOnce ==
  /\ [](OneRequest => Cardinality({j \in Jobs : job[j].file # NoFile}) <= 1)
  /\ [][OneRequest =>
          \A r \in Rooms :
            (rooms[r].pdfTranscriptFileId # NoFile /\ rooms'[r].exists) =>
              rooms'[r].pdfTranscriptFileId = rooms[r].pdfTranscriptFileId]_vars

\* C19: a rejection leaves the item in the queue and the rooms as they are,
\* and the rejected invocation sends nothing; the queue loses an item only to
\* an invocation that is admitted, which counts the counter up and works on
\* that item; and when the awaits are answered and the queue keeps invoking
\* the handler, every item still queued after a rejection is admitted in the
\* end, and the admitted invocation runs to its end.
C19_RejectedItemIsAdmittedLater ==
  /\ [][\A j \in Jobs :
          (job[j].main.pc = "idle" /\ job'[j].main.pc = "rejected") =>
            /\ queue' = queue /\ queue # <<>>
            /\ rooms' = rooms
            /\ job'[j].msg = NoMessage /\ job'[j].stream.pc = "none"]_vars
  /\ [][\A j \in Jobs :
          (job[j].main.pc = "rejected" /\ job'[j] # job[j]) =>
            (job'[j] = IdleJob /\ queue' = queue /\ rooms' = rooms)]_vars
  /\ [][Len(queue') < Len(queue) =>
          /\ currentJobNumber' = currentJobNumber + 1
          /\ \E j \in Jobs, i \in 1..Len(queue) :
               /\ job[j].main.pc = "idle" /\ job'[j].main.pc = "findRoom"
               /\ job'[j].details = queue[i].data.details
               /\ queue' = RemoveAt(queue, i)]_vars
  /\ (\E j \in Jobs : job[j].main.pc = "rejected") ~> (queue = <<>>)
  /\ (\E j \in Jobs : Running(j)) ~> (\A j \in Jobs : ~Running(j))

\* an invocation was rejected at the limit while another is in progress: its
\* item is still queued and the room still pending
C19_Witness ==
  \E j, k \in Jobs :
    /\ job[j].main.pc = "rejected"
    /\ Running(k)
    /\ Len(queue) = 1
    /\ rooms[queue[1].data.details.rid].pdfTranscriptRequested
    /\ currentJobNumber = maxNumberOfConcurrentJobs

PdfFailedSteps ==
  {"pf.findRoom", "pf.findUser", "pf.unset", "pf.createDirectMessage", "pf.sendMessage"}

\* C20: a job whose pdfComplete has issued the file-reference write never runs
\* pdfFailed afterwards, whatever fails; a job that runs pdfFailed writes no
\* file reference and sends no file message, then or later; pdfFailed of the
\* catch runs only in a job whose stream was never opened; and the flag is
\* cleared by pdfFailed alone.
C20_SuccessAndFailureExclusive ==
  /\ [][\A j \in Jobs :
          job[j].stream.pc \in {"pc.all", "pc.translate1", "pc.translate2", "pc.allSettled", "done"} =>
            /\ job'[j].stream.pc \notin PdfFailedSteps
            /\ job'[j].main = job[j].main]_vars
  /\ [](\A j \in Jobs :
          /\ job[j].main.pc \in PdfFailedSteps => job[j].stream.pc = "none"
          /\ InPdfFailed(j) => (job[j].d1 = NoDelivery /\ job[j].d2 = NoDelivery))
  /\ [][\A j \in Jobs :
          (InPdfFailed(j) /\ job'[j] # job[j]) =>
            /\ \A r \in Rooms : rooms'[r].pdfTranscriptFileId = rooms[r].pdfTranscriptFileId
            /\ job'[j].d1 = NoDelivery /\ job'[j].d2 = NoDelivery
            /\ job'[j].stream.pc \in PdfFailedSteps \cup {"none", "done", "unhandled"}]_vars
  /\ [][\A j \in Jobs :
          (job[j].main.pc \in MainOver /\ job[j].stream.pc = "none") =>
            job'[j].stream.pc = "none"]_vars
  /\ [][\A r \in Rooms :
          (rooms[r].pdfTranscriptRequested /\ rooms'[r].exists /\ ~rooms'[r].pdfTranscriptRequested) =>
            \E j \in Jobs, th \in Threads :
              /\ job[j][th].pc = "pf.unset"
              /\ job'[j][th].pc = "pf.createDirectMessage"
              /\ job[j].details.rid = r]_vars

\* the document was uploaded, the user lookup of pdfComplete raised: pdfFailed
\* has cleared the flag and is sending the error, and the room has no file
\* reference
C20_Witness ==
  \E j \in Jobs :
    /\ job[j].stream = [pc |-> "pf.sendMessage", e |-> "store-error"]
    /\ job[j].file = <<"file", j>>
    /\ rooms[job[j].details.rid].exists
    /\ ~rooms[job[j].details.rid].pdfTranscriptRequested
    /\ rooms[job[j].details.rid].pdfTranscriptFileId = NoFile

\* no requestTranscript call for room r is between its lookup and its end
NoCallInFlight(r) ==
  \A c \in Calls : call[c].rid = r => call[c].pc \in {"idle", "done"}

\* C21: when no requestTranscript call is in flight for a room, a room that is
\* flagged pending and has no transcript file reference has a work item in the
\* queue or an admitted job that has not finished.
C21_PendingFlagHasWork ==
  \A r \in Rooms :
    (/\ NoCallInFlight(r)
     /\ rooms[r].exists
     /\ rooms[r].pdfTranscriptRequested
     /\ rooms[r].pdfTranscriptFileId = NoFile) =>
      \/ \E i \in 1..Len(queue) : queue[i].data.details.rid = r
      \/ \E j \in Jobs : job[j].details.rid = r /\ Executing(j)

====
